---- MODULE Spec2Model ----
(***************************************************************************)
(* A model of the segregated-free-list allocator of src/mm.c.              *)
(*                                                                         *)
(* The heap is modelled word by word: mem is the sequence of the words of  *)
(* the memory provider's arena, the word at byte address a being           *)
(* mem[Idx(a)].  Headers, footers, the sixteen list heads and the          *)
(* prev_list/next_list words of free blocks all live in mem, exactly as in *)
(* the C code.  Every helper of mm.c is an operator from a heap record     *)
(*   [mem, brk, start, max, junk, flp, hlp, fault]                         *)
(* to a heap record (and a return value, where the C function has one).    *)
(* W = sizeof(void * ) = 8 (a 64-bit build).                               *)
(***************************************************************************)
EXTENDS Integers, Sequences, FiniteSets, TLC

VARIABLES
    mem,                    \* the words of the arena, from mem_start_brk to mem_max_addr
    mem_start_brk,          \* provider: first byte of the arena
    mem_brk,                \* provider: the break, first byte not handed out
    mem_max_addr,           \* provider: first byte past the arena
    junk,                   \* provider: the indeterminate content of fresh words
    heap_listp,             \* static char *heap_listp
    free_list_segregatedp,  \* static struct block_list **free_list_segregatedp
    phase,                  \* "start", then "ready" (mm_init returned 0) or "failed" (-1);
                            \* "crashed" after a write outside the arena; "busy" while
                            \* a call is run statement by statement
    live,                   \* the caller's live allocations: pointer -> what it wrote there
    op,                     \* the last public call: its name, arguments and return value
    nops                    \* number of calls made after mm_init

vars == <<mem, mem_start_brk, mem_brk, mem_max_addr, junk, heap_listp,
          free_list_segregatedp, phase, live, op, nops>>

----------------------------------------------------------------------------
(* Program constants.                                                      *)

WSIZE == 8
DSIZE == 2 * WSIZE
CHUNKSIZE == 4096
NLISTS == 16
NULL == 0
FAIL == -1

(* Bounds of the model.                                                    *)

\* calls made after mm_init
MaxOps == 4
\* bytes the provider still grants after mm_init's two extensions
ExtraHeap == 256

\* request sizes the caller draws from
Sizes == {0, 24, 100, 4000, 4090}
\* bytes mm_init asks the provider for: first call, and the chunk
InitBytes == 4 * WSIZE + NLISTS * WSIZE
\* arenas: too small for mm_init's first call, too small for its chunk, large enough
ArenaSizes == {InitBytes - WSIZE, InitBytes + CHUNKSIZE - WSIZE,
               InitBytes + CHUNKSIZE + ExtraHeap}
\* where the arena starts: 2W-aligned, as malloc'ed memory is
ArenaStarts == {4 * DSIZE}
\* what an unwritten word of the arena may hold
JunkWords == {0, 1431655765}

Min(a, b) == IF a < b THEN a ELSE b

----------------------------------------------------------------------------
(* Memory and the memory provider.                                         *)

Idx(s, a) == (a - s.start) \div WSIZE + 1

\* the arena is one array of the provider: every word of it can be read and written,
\* also past the break
InArena(s, a) == a >= s.start /\ a + WSIZE <= s.max

\* mem_sbrk(incr): the old break, or (void * )-1 when the arena is exhausted
mem_sbrk(s, incr) ==
    IF incr < 0 \/ s.brk + incr > s.max
    THEN [s |-> s, ret |-> FAIL]
    ELSE [s |-> [s EXCEPT !.brk = @ + incr], ret |-> s.brk]

\* a read outside the arena is undefined: it yields whatever is there
GET(s, p) == IF InArena(s, p) THEN s.mem[Idx(s, p)] ELSE s.junk

\* a write outside the arena is undefined: the run is over (fault)
PUT(s, p, val) ==
    IF InArena(s, p)
    THEN [s EXCEPT !.mem[Idx(s, p)] = val]
    ELSE [s EXCEPT !.fault = TRUE]

\* (size) | (alloc), alloc being 0 or 1
PACK(size, alloc) == IF size % 2 = 1 THEN size ELSE size + alloc

\* GET(p) & ~(DSIZE - 1)
GET_SIZE(s, p) == GET(s, p) - (GET(s, p) % DSIZE)

\* GET(p) & 0x1
GET_ALLOC(s, p) == GET(s, p) % 2

HDRP(bp) == bp - WSIZE

FTRP(s, bp) == bp + GET_SIZE(s, HDRP(bp)) - DSIZE

NEXT_BLKP(s, bp) == bp + GET_SIZE(s, bp - WSIZE)

PREV_BLKP(s, bp) == bp - GET_SIZE(s, bp - DSIZE)

\* PUT(HDRP(bp), val)
put_hdr(s, bp, val) == PUT(s, HDRP(bp), val)

\* PUT(FTRP(bp), val): the footer's place is read from the header as it is now
put_ftr(s, bp, val) == PUT(s, FTRP(s, bp), val)

\* struct block_list { prev_list; next_list; } laid over a free block's payload
prev_list(s, b) == GET(s, b)

next_list(s, b) == GET(s, b + WSIZE)

set_prev_list(s, b, v) == PUT(s, b, v)

set_next_list(s, b, v) == PUT(s, b + WSIZE, v)

\* free_list_segregatedp[index]
head(s, index) == GET(s, s.flp + index * WSIZE)

set_head(s, index, v) == PUT(s, s.flp + index * WSIZE, v)

----------------------------------------------------------------------------
(* The size-class index.                                                   *)

RECURSIVE LOG2(_)
\* 63 - clzll(X): the position of the highest set bit (X > 0)
LOG2(X) == IF X <= 1 THEN 0 ELSE 1 + LOG2(X \div 2)

freelistindex(block_size) ==
    LET index == IF LOG2(block_size) <= 4 THEN 0 ELSE LOG2(block_size) - 4
    IN  IF index < 13 THEN index ELSE 12

----------------------------------------------------------------------------
(* The segregated free lists.  Each C statement is one operator applied to *)
(* the heap the statement before it left.                                  *)

\* add_block->next_list = free_list_segregatedp[index]
add_to_free_next(s, bp, index) == set_next_list(s, bp, head(s, index))

\* if (free_list_segregatedp[index] != NULL) free_list_segregatedp[index]->prev_list = add_block
add_to_free_prev(s, bp, index) ==
    IF head(s, index) # NULL THEN set_prev_list(s, head(s, index), bp) ELSE s

add_to_free(s, bp, index) ==
    set_head(
        add_to_free_prev(
            add_to_free_next(set_prev_list(s, bp, NULL), bp, index),
            bp, index),
        index, bp)

\* a faulty removal: the block before keeps its link to the block removed
remove_free_prev_kept(s, removep) == s

\* removep->prev_list->next_list = removep->next_list
remove_free_prev(s, removep) ==
    set_next_list(s, prev_list(s, removep), next_list(s, removep))

\* free_list_segregatedp[index]->prev_list = NULL
remove_free_head(s, index) == set_prev_list(s, head(s, index), NULL)

\* returns the heap; the C function's return value is blockp itself
remove_free(s, blockp) ==
    LET index == freelistindex(GET_SIZE(s, HDRP(blockp)))
        nx == next_list(s, blockp)
        pv == prev_list(s, blockp)
    IN  IF nx = NULL /\ pv = NULL
        THEN set_head(s, index, NULL)
        ELSE IF nx # NULL /\ pv # NULL
        THEN remove_free_prev(set_prev_list(s, nx, pv), blockp)
        ELSE IF nx # NULL /\ pv = NULL
        THEN remove_free_head(set_head(s, index, nx), index)
        ELSE set_next_list(s, pv, NULL)

----------------------------------------------------------------------------
(* Placement: find_fit and place.                                          *)

\* freep->next_list->prev_list = freep->prev_list
find_fit_next(s, freep) ==
    set_prev_list(s, next_list(s, freep), prev_list(s, freep))

\* free_list_segregatedp[index] = freep->next_list
find_fit_head(s, index, freep) == set_head(s, index, next_list(s, freep))

\* the unlinking find_fit does inline on the block it found in its own class
find_fit_unlink(s, index, freep) ==
    LET pv == prev_list(s, freep)
        nx == next_list(s, freep)
    IN  IF pv # NULL /\ nx # NULL
        THEN find_fit_next(set_next_list(s, pv, nx), freep)
        ELSE IF pv # NULL
        THEN set_next_list(s, pv, NULL)
        ELSE IF nx # NULL
        THEN find_fit_head(set_prev_list(s, nx, NULL), index, freep)
        ELSE set_head(s, index, NULL)

\* a faulty first loop: the head of the class is taken whatever its size
find_fit_scan_any(s, index, freep, asize) ==
    IF freep = NULL
    THEN [s |-> s, ret |-> NULL]
    ELSE [s |-> find_fit_unlink(s, index, freep), ret |-> freep]

RECURSIVE find_fit_scan(_, _, _, _)
\* the first loop of find_fit: first fit in the list of asize's own class
find_fit_scan(s, index, freep, asize) ==
    IF freep = NULL
    THEN [s |-> s, ret |-> NULL]
    ELSE IF GET_SIZE(s, HDRP(freep)) >= asize
    THEN [s |-> find_fit_unlink(s, index, freep), ret |-> freep]
    ELSE find_fit_scan(s, index, next_list(s, freep), asize)

\* the unlinking of a head in the second loop of find_fit
find_fit_pop(s, index, freep) ==
    IF next_list(s, freep) # NULL
    THEN find_fit_head(set_prev_list(s, next_list(s, freep), NULL), index, freep)
    ELSE set_head(s, index, NULL)

RECURSIVE find_fit_heads(_, _)
\* the second loop of find_fit: the head of the first non-empty higher class
find_fit_heads(s, index) ==
    IF ~(index < NLISTS)
    THEN [s |-> s, ret |-> NULL]
    ELSE IF head(s, index) # NULL
    THEN [s |-> find_fit_pop(s, index, head(s, index)), ret |-> head(s, index)]
    ELSE find_fit_heads(s, index + 1)

\* a faulty find_fit: the lists of the higher classes are not searched
find_fit_rest_own_class(r, index) == r

\* what find_fit does once its first loop has ended with r
find_fit_rest(r, index) ==
    IF r.ret # NULL THEN r
    ELSE IF index = 15 THEN [s |-> r.s, ret |-> NULL]
    ELSE find_fit_heads(r.s, index + 1)

find_fit(s, asize) ==
    find_fit_rest(
        find_fit_scan(s, freelistindex(asize), head(s, freelistindex(asize)), asize),
        freelistindex(asize))

\* a faulty split: the remainder is put on no list
place_rest_unlisted(s, bp, rsize) ==
    put_ftr(put_hdr(s, bp, PACK(rsize, 0)), bp, PACK(rsize, 0))

\* the remainder of a split: header and footer at bp, then the insertion
place_rest(s, bp, rsize) ==
    add_to_free(
        put_ftr(put_hdr(s, bp, PACK(rsize, 0)), bp, PACK(rsize, 0)),
        bp, freelistindex(rsize))

\* a faulty split: the remainder begins one doubleword early, inside the block
\* just placed
place_next_early(s, bp, rsize) == place_rest(s, NEXT_BLKP(s, bp) - DSIZE, rsize)

\* a faulty split: the remainder is laid out from the address of the next header
\* instead of the next payload
place_next_at_header(s, bp, rsize) == place_rest(s, HDRP(NEXT_BLKP(s, bp)), rsize)

\* bp = NEXT_BLKP(bp), and the statements after it
place_next(s, bp, rsize) == place_rest(s, NEXT_BLKP(s, bp), rsize)

\* csize - asize is a size_t: below zero it wraps to a remainder reaching far
\* outside the arena, whose footer cannot be written
place(s, bp, asize) ==
    LET csize == GET_SIZE(s, HDRP(bp))
    IN  IF csize < asize
        THEN [s EXCEPT !.fault = TRUE]
        ELSE IF csize - asize >= 2 * DSIZE
        THEN place_next(
                 put_ftr(put_hdr(s, bp, PACK(asize, 1)), bp, PACK(asize, 1)),
                 bp, csize - asize)
        ELSE put_ftr(put_hdr(s, bp, PACK(csize, 1)), bp, PACK(csize, 1))

----------------------------------------------------------------------------
(* Coalescing and heap extension.                                          *)

\* case 2 after the removal: size += next's size; header, then footer
coalesce_next(s, bp, size) ==
    put_ftr(
        put_hdr(s, bp, PACK(size + GET_SIZE(s, HDRP(NEXT_BLKP(s, bp))), 0)),
        bp, PACK(size + GET_SIZE(s, HDRP(NEXT_BLKP(s, bp))), 0))

\* PUT(HDRP(PREV_BLKP(bp)), val)
put_prev_hdr(s, bp, val) == PUT(s, HDRP(PREV_BLKP(s, bp)), val)

\* PUT(FTRP(NEXT_BLKP(bp)), val)
put_next_ftr(s, bp, val) == PUT(s, FTRP(s, NEXT_BLKP(s, bp)), val)

\* a faulty case 3: the size of the block before is not added
coalesce_prev_own_size(s, bp, size) ==
    put_prev_hdr(put_ftr(s, bp, PACK(size, 0)), bp, PACK(size, 0))

\* case 3 after the removal: size += prev's size; footer of bp, then header of prev
coalesce_prev(s, bp, size) ==
    put_prev_hdr(
        put_ftr(s, bp, PACK(size + GET_SIZE(s, HDRP(PREV_BLKP(s, bp))), 0)),
        bp, PACK(size + GET_SIZE(s, HDRP(PREV_BLKP(s, bp))), 0))

\* case 4 after the two removals: header of prev, then footer of next
coalesce_both(s, bp, size) ==
    put_next_ftr(
        put_prev_hdr(s, bp,
            PACK(size + GET_SIZE(s, HDRP(PREV_BLKP(s, bp)))
                      + GET_SIZE(s, FTRP(s, NEXT_BLKP(s, bp))), 0)),
        bp,
        PACK(size + GET_SIZE(s, HDRP(PREV_BLKP(s, bp)))
                  + GET_SIZE(s, FTRP(s, NEXT_BLKP(s, bp))), 0))

\* remove_free(PREV_BLKP(bp)), in the heap as it is now
remove_free_prev_blk(s, bp) == remove_free(s, PREV_BLKP(s, bp))

\* returns temp_bp, as the C function does
coalesce(s, bp) ==
    LET size == GET_SIZE(s, HDRP(bp))
        prev_alloc == GET_ALLOC(s, FTRP(s, PREV_BLKP(s, bp))) # 0
        next_alloc == GET_ALLOC(s, HDRP(NEXT_BLKP(s, bp))) # 0
    IN  IF prev_alloc /\ next_alloc
        THEN [s |-> s, ret |-> bp]
        ELSE IF prev_alloc /\ ~next_alloc
        THEN [s |-> coalesce_next(remove_free(s, NEXT_BLKP(s, bp)), bp, size),
              ret |-> bp]
        ELSE IF ~prev_alloc /\ next_alloc
        THEN [s |-> coalesce_prev(remove_free(s, PREV_BLKP(s, bp)), bp, size),
              ret |-> PREV_BLKP(s, bp)]
        ELSE [s |-> coalesce_both(
                        remove_free_prev_blk(remove_free(s, NEXT_BLKP(s, bp)), bp),
                        bp, size),
              ret |-> PREV_BLKP(s, bp)]

\* a faulty extension: no new epilogue header is written
extend_heap_no_epilogue(s, bp) == s

\* PUT(HDRP(NEXT_BLKP(bp)), PACK(0, 1)): the new epilogue header
extend_heap_epilogue(s, bp) == PUT(s, HDRP(NEXT_BLKP(s, bp)), PACK(0, 1))

\* extend_heap once mem_sbrk has answered r
extend_heap_block(r, size) ==
    IF r.ret = FAIL
    THEN [s |-> r.s, ret |-> NULL]
    ELSE coalesce(
             extend_heap_epilogue(
                 put_ftr(put_hdr(r.s, r.ret, PACK(size, 0)), r.ret, PACK(size, 0)),
                 r.ret),
             r.ret)

extend_heap(s, words) ==
    extend_heap_block(
        mem_sbrk(s, IF words % 2 = 1 THEN (words + 1) * WSIZE ELSE words * WSIZE),
        IF words % 2 = 1 THEN (words + 1) * WSIZE ELSE words * WSIZE)

----------------------------------------------------------------------------
(* The public operations.                                                  *)

RECURSIVE clear_heads(_, _)
\* for (i = 0; i < 16; i++) free_list_segregatedp[i] = NULL;
clear_heads(s, i) ==
    IF i < NLISTS THEN clear_heads(set_head(s, i, NULL), i + 1) ELSE s

\* heap_listp, the padding word, the prologue and the first epilogue
mm_init_prologue(s) ==
    LET hl == s.flp + NLISTS * WSIZE
    IN  [PUT(PUT(PUT(PUT(s, hl, 0),
                     hl + 1 * WSIZE, PACK(DSIZE, 1)),
                 hl + 2 * WSIZE, PACK(DSIZE, 1)),
             hl + 3 * WSIZE, PACK(0, 1))
         EXCEPT !.hlp = hl + 2 * WSIZE]

\* a faulty mm_init: the first chunk is put on no list
mm_init_chunk_unlisted(e) ==
    IF e.ret = NULL THEN [s |-> e.s, ret |-> -1] ELSE [s |-> e.s, ret |-> 0]

\* mm_init once extend_heap has answered e
mm_init_chunk(e) ==
    IF e.ret = NULL
    THEN [s |-> e.s, ret |-> -1]
    ELSE [s |-> add_to_free(e.s, e.ret, freelistindex(CHUNKSIZE)), ret |-> 0]

\* mm_init once mem_sbrk has answered r
mm_init_heap(r) ==
    IF r.ret = FAIL
    THEN [s |-> [r.s EXCEPT !.flp = FAIL], ret |-> -1]
    ELSE mm_init_chunk(
             extend_heap(
                 mm_init_prologue(clear_heads([r.s EXCEPT !.flp = r.ret], 0)),
                 CHUNKSIZE \div WSIZE))

mm_init(s) == mm_init_heap(mem_sbrk(s, 4 * WSIZE + NLISTS * WSIZE))

\* a faulty adjustment: rounded up, the header and footer words forgotten
adjust_no_overhead(size) ==
    IF size <= DSIZE
    THEN 2 * DSIZE
    ELSE DSIZE * ((size + (DSIZE - 1)) \div DSIZE)

\* the adjusted block size mm_malloc computes
adjust(size) ==
    IF size <= DSIZE
    THEN 2 * DSIZE
    ELSE DSIZE * ((size + DSIZE + (DSIZE - 1)) \div DSIZE)

\* mm_malloc once extend_heap has answered e
mm_malloc_extend(e, asize) ==
    IF e.ret = NULL
    THEN [s |-> e.s, ret |-> NULL]
    ELSE [s |-> place(e.s, e.ret, asize), ret |-> e.ret]

\* mm_malloc once find_fit has answered f
mm_malloc_fit(f, asize) ==
    IF f.ret # NULL
    THEN [s |-> place(f.s, f.ret, asize), ret |-> f.ret]
    ELSE mm_malloc_extend(extend_heap(f.s, asize \div WSIZE), asize)

\* a faulty mm_malloc: the request for no bytes is served like any other
mm_malloc_serves_zero(s, size) == mm_malloc_fit(find_fit(s, adjust(size)), adjust(size))

mm_malloc(s, size) ==
    IF size = 0
    THEN [s |-> s, ret |-> NULL]
    ELSE mm_malloc_fit(find_fit(s, adjust(size)), adjust(size))

\* a faulty mm_free: the list is chosen by the payload size
mm_free_payload_class(s, bp) ==
    IF bp = NULL
    THEN s
    ELSE LET size == GET_SIZE(s, HDRP(bp))
         IN  add_to_free(
                 put_ftr(put_hdr(s, bp, PACK(size, 0)), bp, PACK(size, 0)),
                 bp, freelistindex(size - DSIZE))

mm_free(s, bp) ==
    IF bp = NULL
    THEN s
    ELSE LET size == GET_SIZE(s, HDRP(bp))
         IN  add_to_free(
                 put_ftr(put_hdr(s, bp, PACK(size, 0)), bp, PACK(size, 0)),
                 bp, freelistindex(size))

\* the low k bytes of a word (little-endian); model words stay below 2^32
LowBytes(v, k) == IF k >= 4 THEN v ELSE v % (256 ^ k)

\* the word that results from storing the low k bytes of v over the word old
Blend(v, old, k) == LowBytes(v, k) + (old - LowBytes(old, k))

\* memcpy(dst, src, n) between word-aligned regions: n \div WSIZE whole words, then
\* the low n % WSIZE bytes of the next word
memcpy(s, dst, src, n) ==
    LET d0 == Idx(s, dst)
        full == n \div WSIZE
        rest == n % WSIZE
        words == (n + WSIZE - 1) \div WSIZE
    IN  IF words > 0 /\ ~(InArena(s, dst) /\ InArena(s, dst + (words - 1) * WSIZE))
        THEN [s EXCEPT !.fault = TRUE]
        ELSE [s EXCEPT !.mem =
                [i \in 1..Len(s.mem) |->
                    IF i >= d0 /\ i < d0 + full
                    THEN GET(s, src + (i - d0) * WSIZE)
                    ELSE IF rest > 0 /\ i = d0 + full
                    THEN Blend(GET(s, src + full * WSIZE), s.mem[i], rest)
                    ELSE s.mem[i]]]

\* mm_realloc's answer when it calls no memcpy
NoCopy(m) == [s |-> m.s, ret |-> m.ret, copied |-> -1]

\* a faulty copy: the old block is freed before its bytes are copied
mm_realloc_copy_after_free(m, ptr, n) ==
    IF m.ret = NULL
    THEN NoCopy(m)
    ELSE [s |-> memcpy(mm_free(m.s, ptr), m.ret, ptr, n), ret |-> m.ret, copied |-> n]

\* a faulty failure path: the old block is freed although mm_malloc answered NULL
mm_realloc_copy_free_on_null(m, ptr, n) ==
    IF m.ret = NULL
    THEN [s |-> mm_free(m.s, ptr), ret |-> NULL, copied |-> -1]
    ELSE [s |-> mm_free(memcpy(m.s, m.ret, ptr, n), ptr), ret |-> m.ret, copied |-> n]

\* mm_realloc once mm_malloc has answered m: n bytes are copied, the old block freed
mm_realloc_copy(m, ptr, n) ==
    IF m.ret = NULL
    THEN NoCopy(m)
    ELSE [s |-> mm_free(memcpy(m.s, m.ret, ptr, n), ptr), ret |-> m.ret, copied |-> n]

\* a faulty merge: the footer of the grown block is not written
mm_realloc_merge_no_footer(s, ptr, total) ==
    put_hdr(remove_free(s, NEXT_BLKP(s, ptr)), ptr, PACK(total, 1))

\* a faulty merge: the next block stays on its list
mm_realloc_merge_listed(s, ptr, total) ==
    put_ftr(put_hdr(s, ptr, PACK(total, 1)), ptr, PACK(total, 1))

\* the in-place path: the next block leaves its list, then header and footer of
\* the grown block
mm_realloc_merge(s, ptr, total) ==
    put_ftr(put_hdr(remove_free(s, NEXT_BLKP(s, ptr)), ptr, PACK(total, 1)),
            ptr, PACK(total, 1))

\* returns the heap, the pointer, and the byte count handed to memcpy (-1: no copy)
mm_realloc(s, ptr, size) ==
    IF size = 0
    THEN [s |-> mm_free(s, ptr), ret |-> NULL, copied |-> -1]
    ELSE IF ptr = NULL
    THEN NoCopy(mm_malloc(s, size))
    ELSE LET oldsize == GET_SIZE(s, HDRP(ptr))
             nextsize == GET_SIZE(s, HDRP(NEXT_BLKP(s, ptr)))
         IN  IF oldsize + nextsize > size /\ GET_ALLOC(s, HDRP(NEXT_BLKP(s, ptr))) = 0
             THEN [s |-> mm_realloc_merge(s, ptr, oldsize + nextsize),
                   ret |-> ptr, copied |-> -1]
             ELSE mm_realloc_copy(mm_malloc(s, size), ptr,
                                  IF size < oldsize THEN size ELSE oldsize)

----------------------------------------------------------------------------
(* The caller.                                                             *)

\* the word memset(p, k, ...) leaves: every byte k (32 bits kept)
Sentinel(k) == k * 16843009

\* the caller's memset(p, k, n), v being Sentinel(k): n \div WSIZE whole words, then
\* the low n % WSIZE bytes of the next word
fill(s, p, v, n) ==
    LET d0 == Idx(s, p)
        full == n \div WSIZE
        rest == n % WSIZE
        words == (n + WSIZE - 1) \div WSIZE
    IN  IF words > 0 /\ ~(InArena(s, p) /\ InArena(s, p + (words - 1) * WSIZE))
        THEN [s EXCEPT !.fault = TRUE]
        ELSE [s EXCEPT !.mem =
                [i \in 1..Len(s.mem) |->
                    IF i >= d0 /\ i < d0 + full
                    THEN v
                    ELSE IF rest > 0 /\ i = d0 + full
                    THEN Blend(v, s.mem[i], rest)
                    ELSE s.mem[i]]]

----------------------------------------------------------------------------
(* The state machine.                                                      *)

St == [mem |-> mem, brk |-> mem_brk, start |-> mem_start_brk, max |-> mem_max_addr,
       junk |-> junk, flp |-> free_list_segregatedp, hlp |-> heap_listp,
       fault |-> FALSE]

Commit(s) ==
    /\ mem' = s.mem
    /\ mem_brk' = s.brk
    /\ free_list_segregatedp' = s.flp
    /\ heap_listp' = s.hlp
    /\ UNCHANGED <<mem_start_brk, mem_max_addr, junk>>

\* a public call as the caller saw it; brk0 is the break when the call was made
Call(name, ptr, size, ret, copied) ==
    [name |-> name, ptr |-> ptr, size |-> size, ret |-> ret, copied |-> copied,
     brk0 |-> mem_brk]

\* a fresh allocation of the caller: size asked for, nothing written yet
Fresh(size) == [req |-> size, tag |-> 0, n |-> 0]

Drop(f, p) == [q \in DOMAIN f \ {p} |-> f[q]]

Init ==
    /\ mem_start_brk \in ArenaStarts
    /\ mem_brk = mem_start_brk
    /\ \E a \in ArenaSizes : mem_max_addr = mem_start_brk + a
    /\ junk \in JunkWords
    /\ mem = [i \in 1..((mem_max_addr - mem_start_brk) \div WSIZE) |-> junk]
    /\ heap_listp = NULL
    /\ free_list_segregatedp = NULL
    /\ phase = "start"
    /\ live = <<>>
    /\ op = Call("none", NULL, 0, NULL, -1)
    /\ nops = 0

\* mm_init has answered r
MmInitReturn(r) ==
    /\ Commit(r.s)
    /\ phase' = IF r.s.fault THEN "crashed" ELSE IF r.ret = 0 THEN "ready" ELSE "failed"
    /\ op' = Call("mm_init", NULL, 0, r.ret, -1)
    /\ UNCHANGED <<live, nops>>

MmInit ==
    /\ phase = "start"
    /\ MmInitReturn(mm_init(St))

\* mm_malloc(size) has answered r
MallocReturn(r, size) ==
    /\ Commit(r.s)
    /\ phase' = IF r.s.fault THEN "crashed" ELSE "ready"
    /\ op' = Call("mm_malloc", NULL, size, r.ret, -1)
    /\ live' = IF r.ret # NULL THEN (r.ret :> Fresh(size)) @@ live ELSE live
    /\ nops' = nops + 1

Malloc(size) ==
    /\ phase = "ready"
    /\ nops < MaxOps
    /\ MallocReturn(mm_malloc(St, size), size)

\* mm_free(p) has left the heap s
FreeReturn(s, p) ==
    /\ Commit(s)
    /\ phase' = IF s.fault THEN "crashed" ELSE "ready"
    /\ op' = Call("mm_free", p, 0, NULL, -1)
    /\ live' = Drop(live, p)
    /\ nops' = nops + 1

Free(p) ==
    /\ phase = "ready"
    /\ nops < MaxOps
    /\ FreeReturn(mm_free(St, p), p)

\* mm_realloc(p, size) has answered r.  What the caller holds afterwards: nothing for
\* size 0, the old allocation when NULL comes back, else the returned block, with
\* the bytes it had written that the new size keeps
ReallocReturn(r, p, size) ==
    /\ Commit(r.s)
    /\ phase' = IF r.s.fault THEN "crashed" ELSE "ready"
    /\ op' = Call("mm_realloc", p, size, r.ret, r.copied)
    /\ live' = IF size = 0 THEN Drop(live, p)
               ELSE IF r.ret = NULL THEN live
               ELSE IF p = NULL THEN (r.ret :> Fresh(size)) @@ live
               ELSE (r.ret :> [req |-> size, tag |-> live[p].tag,
                               n |-> Min(live[p].n, size)])
                        @@ Drop(live, p)
    /\ nops' = nops + 1

Realloc(p, size) ==
    /\ phase = "ready"
    /\ nops < MaxOps
    /\ ReallocReturn(mm_realloc(St, p, size), p, size)

\* the bytes of p the caller may store to: those it asked for, as far as they lie
\* in the payload of p's block (the caller owns the payload and nothing else)
Owned(p) == Min(live[p].req, GET_SIZE(St, HDRP(p)) - DSIZE)

\* the caller's memset has left the heap s
StoreReturn(s, p) ==
    /\ Commit(s)
    /\ phase' = IF s.fault THEN "crashed" ELSE "ready"
    /\ op' = Call("store", p, Owned(p), NULL, -1)
    /\ live' = [live EXCEPT ![p] = [req |-> live[p].req, tag |-> nops + 1,
                                    n |-> Owned(p)]]
    /\ nops' = nops + 1

\* the caller fills the bytes it owns of a live allocation it has not filled yet:
\* memset(p, k, n)
Store(p) ==
    /\ phase = "ready"
    /\ nops < MaxOps
    /\ live[p].n < Owned(p)
    /\ StoreReturn(fill(St, p, Sentinel(nops + 1), Owned(p)), p)

Next ==
    \/ MmInit
    \/ \E size \in Sizes : Malloc(size)
    \/ \E p \in DOMAIN live \cup {NULL} : Free(p)
    \/ \E p \in DOMAIN live \cup {NULL}, size \in Sizes : Realloc(p, size)
    \/ \E p \in DOMAIN live : Store(p)

Spec == Init /\ [][Next]_vars

----------------------------------------------------------------------------
(* Reading the heap, for the properties below.                             *)

\* a public operation has returned and the allocator is usable
Returned == phase = "ready"

AllocatorCalls == {"mm_malloc", "mm_free", "mm_realloc"}

RECURSIVE Walk(_, _)
\* the payload pointers met from bp on by next-block arithmetic, the zero-size
\* block that ends the walk included; the walk also ends where it leaves the
\* words handed out by the provider
Walk(s, bp) ==
    IF ~(HDRP(bp) >= s.start /\ HDRP(bp) + WSIZE <= s.brk)
    THEN <<>>
    ELSE IF GET_SIZE(s, HDRP(bp)) = 0
    THEN <<bp>>
    ELSE <<bp>> \o Walk(s, NEXT_BLKP(s, bp))

\* all blocks, prologue first
Blocks == Walk(St, heap_listp)

\* the blocks that have a footer: all but a closing zero-size block
RealBlocks == SelectSeq(Blocks, LAMBDA b : GET_SIZE(St, HDRP(b)) > 0)

IsBlock(b) == \E i \in 1..Len(RealBlocks) : RealBlocks[i] = b

BlockSize(b) == GET_SIZE(St, HDRP(b))

IsAllocated(b) == GET_ALLOC(St, HDRP(b)) = 1

\* bytes of payload of the block at b: its size minus the header and footer words
Capacity(b) == BlockSize(b) - 2 * WSIZE

RECURSIVE Chain(_, _, _)
\* the nodes met following next_list from b, at most fuel of them
Chain(s, b, fuel) ==
    IF b = NULL \/ fuel = 0 THEN <<>>
    ELSE <<b>> \o Chain(s, next_list(s, b), fuel - 1)

\* more nodes than the arena has room for blocks: a chain this long has a cycle
MaxNodes == Len(mem) \div 4 + 1

\* the list of class i
ListOf(i) == Chain(St, head(St, i), MaxNodes)

\* how often b occurs in the list of class i
Occurs(b, i) == Cardinality({k \in 1..Len(ListOf(i)) : ListOf(i)[k] = b})

\* the size the specification gives the block serving a request of size bytes:
\* 4W up to 2W bytes, else 2W * ceil((size + 2W) / 2W)
AsizeOf(size) ==
    IF size <= 2 * WSIZE THEN 4 * WSIZE
    ELSE 2 * WSIZE * ((size + 2 * WSIZE + (2 * WSIZE - 1)) \div (2 * WSIZE))

----------------------------------------------------------------------------
(* C1.  Whenever mm_realloc(ptr, size), ptr # NULL and size > 0, returns a *)
(* non-null q, q is the payload pointer of an allocated block whose        *)
(* payload capacity (block size - 2W) is at least size.                    *)
(* The in-place path tests oldsize + nextsize > size on whole block sizes, *)
(* so it returns blocks up to 2W - 1 bytes too small.                      *)
C1_ReallocCapacity ==
    (Returned /\ op.name = "mm_realloc" /\ op.ptr # NULL /\ op.size > 0
              /\ op.ret # NULL)
        => /\ IsBlock(op.ret)
           /\ IsAllocated(op.ret)
           /\ Capacity(op.ret) >= op.size

(* C2.  Whenever mm_malloc(size), size > 0, returns a non-null p, p is the *)
(* payload pointer of a block marked allocated whose size is at least      *)
(* asize, so that its payload capacity is at least size bytes.             *)
C2_MallocBlock ==
    (Returned /\ op.name = "mm_malloc" /\ op.size > 0 /\ op.ret # NULL)
        => /\ IsBlock(op.ret)
           /\ IsAllocated(op.ret)
           /\ BlockSize(op.ret) >= AsizeOf(op.size)
           /\ Capacity(op.ret) >= op.size

\* mm_malloc has served a request by extending the heap
C2_Witness ==
    /\ Returned /\ op.name = "mm_malloc" /\ op.size > 0 /\ op.ret # NULL
    /\ mem_brk > op.brk0
    /\ IsBlock(op.ret) /\ Capacity(op.ret) >= op.size

(* C3.  After any mm_free or mm_realloc call returns, no two physically    *)
(* adjacent blocks of the heap are both free.                              *)
C3_NoAdjacentFree ==
    (Returned /\ op.name \in {"mm_free", "mm_realloc"})
        => LET blocks == RealBlocks
           IN  \A i \in 1..(Len(blocks) - 1) :
                   IsAllocated(blocks[i]) \/ IsAllocated(blocks[i + 1])

PublicCalls == {"mm_init", "mm_malloc", "mm_free", "mm_realloc"}

\* a public operation has returned and has left a heap to read: mm_init got at
\* least as far as laying out the prologue
AtReturn ==
    /\ op.name \in PublicCalls
    /\ phase = "ready" \/ (phase = "failed" /\ heap_listp # NULL)

Classes == 0..(NLISTS - 1)

(* C4.  At the return of every public operation, every block whose header  *)
(* says free appears exactly once in exactly one list, the one at index     *)
(* freelistindex(block size), and no block whose header says allocated      *)
(* (the prologue included) appears in any list.                             *)
C4_FreeBlocksListed ==
    AtReturn =>
        LET blocks == RealBlocks
        IN  \A i \in Classes :
                LET list == ListOf(i)
                IN  \A k \in 1..Len(blocks) :
                        Cardinality({n \in 1..Len(list) : list[n] = blocks[k]}) =
                            IF ~IsAllocated(blocks[k])
                               /\ i = freelistindex(BlockSize(blocks[k]))
                            THEN 1 ELSE 0

\* mm_free has returned and two free blocks of different classes are each met
\* once in their lists, next to an allocated block that is in none
C4_Witness ==
    /\ AtReturn /\ op.name = "mm_free" /\ op.ptr # NULL
    /\ ~IsAllocated(op.ptr) /\ Occurs(op.ptr, freelistindex(BlockSize(op.ptr))) = 1
    /\ \E k \in 1..Len(RealBlocks) :
           /\ ~IsAllocated(RealBlocks[k])
           /\ freelistindex(BlockSize(RealBlocks[k])) # freelistindex(BlockSize(op.ptr))
           /\ Occurs(RealBlocks[k], freelistindex(BlockSize(RealBlocks[k]))) = 1
    /\ \E p \in DOMAIN live : IsAllocated(p) /\ \A i \in Classes : Occurs(p, i) = 0

(* C5.  At the return of every public operation, every block other than    *)
(* the epilogue has a footer word equal to its header word.                 *)
C5_HeaderEqualsFooter ==
    AtReturn =>
        LET blocks == RealBlocks
        IN  \A k \in 1..Len(blocks) :
                GET(St, HDRP(blocks[k])) = GET(St, FTRP(St, blocks[k]))

\* mm_realloc has grown a block in place over its free neighbour, and header and
\* footer of the grown block agree
C5_Witness ==
    /\ AtReturn /\ op.name = "mm_realloc" /\ op.size > 0
    /\ op.ptr # NULL /\ op.ret = op.ptr /\ op.copied = -1
    /\ IsBlock(op.ret)
    /\ GET(St, HDRP(op.ret)) = GET(St, FTRP(St, op.ret))
    /\ \E k \in 1..Len(RealBlocks) : ~IsAllocated(RealBlocks[k])

(* C6.  At the return of every public operation the blocks tile the heap:  *)
(* the walk from the prologue by header sizes ends at a zero-size allocated *)
(* header, which is the last word obtained from the provider, and every     *)
(* header met before it holds a positive multiple of 2W and the allocated   *)
(* bit, nothing else.                                                       *)
C6_BlocksTileHeap ==
    AtReturn =>
        LET blocks == Blocks
        IN  /\ Len(blocks) >= 2
            /\ blocks[1] = heap_listp
            /\ GET(St, HDRP(heap_listp)) = PACK(DSIZE, 1)
            /\ GET(St, HDRP(blocks[Len(blocks)])) = PACK(0, 1)
            /\ HDRP(blocks[Len(blocks)]) = mem_brk - WSIZE
            /\ \A k \in 1..(Len(blocks) - 1) :
                  /\ GET(St, HDRP(blocks[k])) % DSIZE \in {0, 1}
                  /\ BlockSize(blocks[k]) > 0
                  /\ blocks[k + 1] = blocks[k] + BlockSize(blocks[k])

\* mm_malloc has extended the heap, and the walk ends at the new last word
C6_Witness ==
    /\ AtReturn /\ op.name = "mm_malloc" /\ op.ret # NULL
    /\ mem_brk > op.brk0
    /\ Len(Blocks) >= 4
    /\ HDRP(Blocks[Len(Blocks)]) = mem_brk - WSIZE
    /\ GET(St, mem_brk - WSIZE) = PACK(0, 1)

(* C7.  Provided the first address of the provider is 2W-aligned, every    *)
(* non-null pointer returned by mm_malloc or mm_realloc is a multiple of    *)
(* 2W.                                                                      *)
C7_Aligned ==
    (Returned /\ mem_start_brk % DSIZE = 0
              /\ op.name \in {"mm_malloc", "mm_realloc"} /\ op.ret # NULL)
        => op.ret % DSIZE = 0

\* mm_realloc has moved a block of an aligned arena, to an aligned address
C7_Witness ==
    /\ Returned /\ mem_start_brk % DSIZE = 0
    /\ op.name = "mm_realloc" /\ op.ptr # NULL
    /\ op.ret # NULL /\ op.ret # op.ptr
    /\ op.ret % DSIZE = 0

\* the words of m that are the payload of a block of n bytes of payload at p
Payload(m, p, n) == SubSeq(m, Idx(St, p), Idx(St, p) + n \div WSIZE - 1)

(* C8.  No allocator call made on other pointers writes a word inside the  *)
(* payload of a live allocation p: across mm_malloc, mm_free and mm_realloc *)
(* (place, coalesce, add_to_free, remove_free and find_fit within them),    *)
(* every word of the payload of every allocation that is live before and    *)
(* after the call and is not the call's argument keeps its value, and so    *)
(* do the bytes the caller stored there.                                    *)
C8_PayloadUntouched ==
    [][(phase = "ready" /\ phase' = "ready" /\ op'.name \in AllocatorCalls)
        => \A p \in DOMAIN live :
              (p # op'.ptr)
                  => /\ p \in DOMAIN live'
                     /\ live'[p] = live[p]
                     /\ Payload(mem', p, Capacity(p)) = Payload(mem, p, Capacity(p))
      ]_vars

\* mm_free has put the block right after a live allocation into a list, and the
\* allocation still holds what the caller stored
C8_Witness ==
    /\ Returned /\ op.name = "mm_free" /\ op.ptr # NULL
    /\ \E p \in DOMAIN live :
          /\ live[p].n > 0
          /\ NEXT_BLKP(St, p) = op.ptr
          /\ head(St, freelistindex(BlockSize(op.ptr))) = op.ptr
          /\ \A w \in 0..(live[p].n \div WSIZE - 1) :
                 GET(St, p + w * WSIZE) = Sentinel(live[p].tag)

(* C9.  A successful mm_realloc(p, size) on a live allocation p with       *)
(* size >= the payload capacity of p's block returns q, equal to p or not,  *)
(* whose first capacity bytes equal the payload of p before the call.       *)
C9_ReallocPreserves ==
    [][(phase = "ready" /\ phase' = "ready" /\ op'.name = "mm_realloc"
          /\ op'.ptr \in DOMAIN live /\ op'.ret # NULL
          /\ op'.size >= Capacity(op'.ptr))
        => Payload(mem', op'.ret, Capacity(op'.ptr))
               = Payload(mem, op'.ptr, Capacity(op'.ptr))
      ]_vars

\* mm_realloc has moved a block the caller had filled to a larger one, and the new
\* block holds what the caller stored
C9_Witness ==
    /\ Returned /\ op.name = "mm_realloc" /\ op.ptr # NULL
    /\ op.ret # NULL /\ op.ret # op.ptr /\ op.copied > 0
    /\ op.size >= GET_SIZE(St, HDRP(op.ptr)) - DSIZE
    /\ live[op.ret].n >= 2 * WSIZE
    /\ \A w \in 0..(live[op.ret].n \div WSIZE - 1) :
           GET(St, op.ret + w * WSIZE) = Sentinel(live[op.ret].tag)

(* C10.  When mm_realloc(p, size), p # NULL and size > 0, cannot be served *)
(* because the provider refuses to extend the heap, it returns NULL and has *)
(* no side effect: every word of the heap (p's header, footer and payload,  *)
(* every other header and footer, every list) and the break are as before,  *)
(* and p's block is still marked allocated.                                 *)
C10_ReallocFailureKeepsHeap ==
    [][(phase = "ready" /\ op'.name = "mm_realloc" /\ op'.ptr \in DOMAIN live
          /\ op'.size > 0 /\ op'.ret = NULL)
        => /\ phase' = "ready"
           /\ mem' = mem
           /\ mem_brk' = mem_brk
           /\ heap_listp' = heap_listp
           /\ free_list_segregatedp' = free_list_segregatedp
           /\ live' = live
           /\ GET_ALLOC(St, HDRP(op'.ptr)) = 1
      ]_vars

\* mm_realloc has answered NULL for a live allocation: no block fits, the provider
\* has no room for the extension, and the allocation is still there
C10_Witness ==
    /\ Returned /\ op.name = "mm_realloc" /\ op.ptr # NULL /\ op.size > 0
    /\ op.ret = NULL
    /\ op.ptr \in DOMAIN live
    /\ IsBlock(op.ptr) /\ IsAllocated(op.ptr)
    /\ mem_brk + adjust(op.size) > mem_max_addr

(* C11.  mm_malloc(size) returns NULL if and only if size = 0 or, find_fit *)
(* having found no block, the provider refuses the extension by asize      *)
(* bytes; and when it returns NULL every word of the heap (blocks and      *)
(* lists) and the break are as before the call.                            *)
C11_MallocNullIff ==
    [][(phase = "ready" /\ op'.name = "mm_malloc")
        => /\ phase' = "ready"
           /\ (op'.ret = NULL)
                <=> \/ op'.size = 0
                    \/ /\ find_fit(St, AsizeOf(op'.size)).ret = NULL
                       /\ mem_brk + AsizeOf(op'.size) > mem_max_addr
           /\ (op'.ret = NULL)
                => /\ mem' = mem
                   /\ mem_brk' = mem_brk
                   /\ heap_listp' = heap_listp
                   /\ free_list_segregatedp' = free_list_segregatedp
      ]_vars

\* mm_malloc has answered NULL to a request for some bytes: no list held a fit
\* and the arena has no room for the extension
C11_Witness ==
    /\ Returned /\ op.name = "mm_malloc" /\ op.size > 0 /\ op.ret = NULL
    /\ mem_brk = op.brk0
    /\ find_fit(St, AsizeOf(op.size)).ret = NULL
    /\ mem_brk + AsizeOf(op.size) > mem_max_addr
    /\ \E k \in 1..Len(RealBlocks) : ~IsAllocated(RealBlocks[k])

\* the blocks of the heap s in address order, each with its header word
ShapeOf(s) ==
    LET walk == SelectSeq(Walk(s, s.hlp), LAMBDA b : GET_SIZE(s, HDRP(b)) > 0)
    IN  [k \in 1..Len(walk) |-> <<walk[k], GET(s, HDRP(walk[k]))>>]

\* the heap after p = mm_malloc(n); mm_free(p) made on the heap s
AfterRoundTrip(s, n) == mm_free(mm_malloc(s, n).s, mm_malloc(s, n).ret)

\* the entries of a shape that are allocated blocks
AllocatedIn(shape) == {shape[k] : k \in {j \in 1..Len(shape) : shape[j][2] % 2 = 1}}

(* C12.  In every state after mm_init and for every n > 0 for which        *)
(* mm_malloc(n) succeeds, p = mm_malloc(n); mm_free(p) leaves the same      *)
(* sequence of blocks with the same sizes and allocated bits: exactly the   *)
(* same when the break has not moved, and the same up to the block before   *)
(* the old epilogue when it has; the allocated blocks are the same in both  *)
(* cases.                                                                   *)
C12_MallocFreeRoundTrip ==
    Returned =>
        \A n \in Sizes \ {0} :
            mm_malloc(St, n).ret # NULL
                => LET before == ShapeOf(St)
                       after == ShapeOf(AfterRoundTrip(St, n))
                   IN  /\ AllocatedIn(after) = AllocatedIn(before)
                       /\ AfterRoundTrip(St, n).brk = mem_brk => after = before
                       /\ Len(after) >= Len(before)
                       /\ \A k \in 1..(Len(before) - 1) : after[k] = before[k]

----------------------------------------------------------------------------
(* A second starting point: the heap after mm_init and four mm_malloc     *)
(* calls that succeeded, so that a few mm_free calls fill one list with    *)
(* several blocks of different sizes.                                      *)

\* the requests already served, giving blocks of 32, 48, 32 and 48 bytes
ListsPrefix == <<8, 24, 8, 24>>
\* request sizes the caller draws from afterwards
ListSizes == {24}

\* the arena before mm_init, large enough for it, every word holding j
Arena0(start, j) ==
    [mem |-> [i \in 1..((InitBytes + CHUNKSIZE + ExtraHeap) \div WSIZE) |-> j],
     brk |-> start, start |-> start, max |-> start + InitBytes + CHUNKSIZE + ExtraHeap,
     junk |-> j, flp |-> NULL, hlp |-> NULL, fault |-> FALSE]

RECURSIVE Served(_, _, _)
RECURSIVE ServedNext(_, _, _)
\* the heap and the caller's allocations after mm_malloc of each size in turn
Served(s, lv, sizes) ==
    IF sizes = <<>>
    THEN [s |-> s, live |-> lv]
    ELSE CHOOSE h \in {ServedNext(r, lv, sizes) : r \in {mm_malloc(s, Head(sizes))}} : TRUE

\* mm_malloc has answered r to the first of sizes
ServedNext(r, lv, sizes) ==
    Served(r.s, (r.ret :> Fresh(Head(sizes))) @@ lv, Tail(sizes))

\* the state the caller's first calls have left
Prepared(start, j) ==
    CHOOSE h \in {Served(r.s, <<>>, ListsPrefix) : r \in {mm_init(Arena0(start, j))}} : TRUE

InitLists ==
    /\ mem_start_brk \in ArenaStarts
    /\ junk \in JunkWords
    /\ mem_max_addr = mem_start_brk + InitBytes + CHUNKSIZE + ExtraHeap
    /\ \E h \in {Prepared(mem_start_brk, junk)} :
           /\ mem = h.s.mem
           /\ mem_brk = h.s.brk
           /\ heap_listp = h.s.hlp
           /\ free_list_segregatedp = h.s.flp
           /\ live = h.live
    /\ phase = "ready"
    /\ op = Call("none", NULL, 0, NULL, -1)
    /\ nops = 0

NextLists ==
    \/ \E size \in ListSizes : Malloc(size)
    \/ \E p \in DOMAIN live \cup {NULL} : Free(p)
    \/ \E p \in DOMAIN live \cup {NULL}, size \in ListSizes : Realloc(p, size)
    \/ \E p \in DOMAIN live : Store(p)

SpecLists == InitLists /\ [][NextLists]_vars

\* the list of class i ends, meets no block twice, and each prev link is the
\* inverse of the next link before it
WellLinked(i) ==
    LET list == ListOf(i)
    IN  /\ Len(list) < MaxNodes
        /\ \A j, k \in 1..Len(list) : list[j] = list[k] => j = k
        /\ list # <<>> => prev_list(St, list[1]) = NULL
        /\ \A k \in 1..(Len(list) - 1) : prev_list(St, list[k + 1]) = list[k]

(* C13.  After every public call each of the lists is a well-formed doubly *)
(* linked list: following next from the head reaches NULL without meeting  *)
(* a block twice, the head's prev is NULL, and x.next = y implies           *)
(* y.prev = x.                                                              *)
C13_ListsWellFormed ==
    Returned => \A i \in Classes : WellLinked(i)

\* b has left a list and still holds the links it had there: it stood between
\* two blocks which are now neighbours in a list
StoodBetween(b) ==
    /\ prev_list(St, b) # NULL
    /\ next_list(St, b) # NULL
    /\ \E i \in Classes :
           \E k \in 1..(Len(ListOf(i)) - 1) :
               /\ ListOf(i)[k] = prev_list(St, b)
               /\ ListOf(i)[k + 1] = next_list(St, b)

\* mm_realloc has grown a block in place over a free block that remove_free took
\* from the interior of its list: the old header of that block is still in the payload
C13_Witness ==
    /\ Returned /\ op.name = "mm_realloc" /\ op.ptr # NULL /\ op.ret = op.ptr
    /\ \E old \in {d \in (4 * WSIZE)..(BlockSize(op.ret) - 4 * WSIZE) : d % DSIZE = 0} :
           /\ GET(St, HDRP(op.ret + old)) = PACK(BlockSize(op.ret) - old, 0)
           /\ StoodBetween(op.ret + old)

(* C14.  mm_init returns 0 exactly when the provider grants both of its    *)
(* extensions, and -1 otherwise.  After a return of 0 the heap is the       *)
(* prologue (2W bytes, allocated), one free block of exactly 4096 bytes and *)
(* the epilogue; the free block is the only element of the list             *)
(* freelistindex(4096) and every other head is NULL.                        *)
C14_InitResult ==
    op.name = "mm_init" =>
        /\ op.ret \in {0, -1}
        /\ op.ret = 0 <=> mem_max_addr - mem_start_brk >= InitBytes + CHUNKSIZE
        /\ op.ret = 0 =>
               /\ phase = "ready"
               /\ mem_brk = mem_start_brk + InitBytes + CHUNKSIZE
               /\ Blocks = <<heap_listp, heap_listp + DSIZE, heap_listp + DSIZE + CHUNKSIZE>>
               /\ GET(St, HDRP(heap_listp)) = PACK(2 * WSIZE, 1)
               /\ GET(St, FTRP(St, heap_listp)) = PACK(2 * WSIZE, 1)
               /\ GET(St, HDRP(heap_listp + DSIZE)) = PACK(CHUNKSIZE, 0)
               /\ GET(St, FTRP(St, heap_listp + DSIZE)) = PACK(CHUNKSIZE, 0)
               /\ GET(St, HDRP(heap_listp + DSIZE + CHUNKSIZE)) = PACK(0, 1)
               /\ HDRP(heap_listp + DSIZE + CHUNKSIZE) + WSIZE = mem_brk
               /\ \A i \in Classes :
                      ListOf(i) = IF i = freelistindex(CHUNKSIZE)
                                  THEN <<heap_listp + DSIZE>> ELSE <<>>
               /\ prev_list(St, heap_listp + DSIZE) = NULL

\* mm_init has returned 0
C14_Witness == op.name = "mm_init" /\ op.ret = 0 /\ phase = "ready"

\* mm_realloc(p, size) is asked to resize a live block by a size other than 0
ResizeCall == phase = "ready" /\ phase' = "ready" /\ op'.name = "mm_realloc"
              /\ op'.ptr \in DOMAIN live /\ op'.size > 0

\* the test of mm_realloc's in-place path, on whole block sizes
GrowsInPlace(p, size) ==
    /\ GET_ALLOC(St, HDRP(NEXT_BLKP(St, p))) = 0
    /\ GET_SIZE(St, HDRP(p)) + GET_SIZE(St, HDRP(NEXT_BLKP(St, p))) > size

\* the shape without its k-th block
Without(shape, k) == SubSeq(shape, 1, k - 1) \o SubSeq(shape, k + 1, Len(shape))

(* C15.  In mm_realloc(ptr, size) with ptr # NULL and size > 0: if the     *)
(* next block is free and oldsize + nextsize > size on whole block sizes,   *)
(* the next block leaves its list, ptr's header and footer become           *)
(* (oldsize + nextsize, allocated) with no split, ptr is returned, no       *)
(* payload byte of ptr changes and no block is allocated; otherwise ptr is  *)
(* not returned: the answer is NULL or another block, and ptr is freed.     *)
C15_ReallocInPlace ==
    [][ResizeCall =>
        \A p \in {op'.ptr}, nb \in {NEXT_BLKP(St, op'.ptr)},
           total \in {GET_SIZE(St, HDRP(op'.ptr)) + GET_SIZE(St, HDRP(NEXT_BLKP(St, op'.ptr)))},
           before \in {ShapeOf(St)}, post \in {St'} :
            IF GrowsInPlace(p, op'.size)
            THEN /\ op'.ret = p
                 /\ \A i \in Classes : \A x \in {head(post, i)} :
                        \A k \in 1..Len(Chain(post, x, MaxNodes)) :
                            Chain(post, x, MaxNodes)[k] # nb
                 /\ GET(post, HDRP(p)) = PACK(total, 1)
                 /\ GET(post, FTRP(post, p)) = PACK(total, 1)
                 /\ Payload(mem', p, Capacity(p)) = Payload(mem, p, Capacity(p))
                 /\ mem_brk' = mem_brk
                 /\ \E k \in 1..Len(before) :
                        /\ before[k] = <<p, PACK(total - GET_SIZE(St, HDRP(nb)), 1)>>
                        /\ ShapeOf(post) = [Without(before, k + 1)
                                               EXCEPT ![k] = <<p, PACK(total, 1)>>]
            ELSE /\ op'.ret # p
                 /\ op'.ret = NULL => mem' = mem
                 /\ op'.ret # NULL => GET(post, HDRP(p)) = PACK(total - GET_SIZE(St, HDRP(nb)), 0)
      ]_vars

\* mm_realloc has grown a live block in place
C15_Witness ==
    /\ Returned /\ op.name = "mm_realloc" /\ op.ptr # NULL /\ op.size > 0
    /\ op.ret = op.ptr /\ op.copied = -1
    /\ BlockSize(op.ret) > AsizeOf(live[op.ret].req)

(* C16.  When mm_realloc(ptr, size) has allocated a new block, copied and  *)
(* freed the old one, the number of bytes it copied is min(size,            *)
(* oldsize - 2W), oldsize being the whole size of the old block: the copy   *)
(* reads nothing beyond the old payload.                                    *)
C16_CopyLength ==
    (Returned /\ op.name = "mm_realloc" /\ op.copied # -1)
        => op.copied = Min(op.size, BlockSize(op.ptr) - 2 * WSIZE)

\* the lists of heap s, class by class
ListsOf(s) == [i \in Classes |-> Chain(s, head(s, i), MaxNodes)]

\* what place(bp, asize) has made, in the heap t it left, of a block of csize
\* bytes at bp, the lists having been before
Placed(before, t, bp, asize, csize) ==
    IF csize - asize >= 4 * WSIZE
    THEN /\ GET(t, HDRP(bp)) = PACK(asize, 1)
         /\ GET(t, bp + asize - DSIZE) = PACK(asize, 1)
         /\ GET(t, HDRP(bp + asize)) = PACK(csize - asize, 0)
         /\ GET(t, bp + csize - DSIZE) = PACK(csize - asize, 0)
         /\ ListsOf(t) = [before EXCEPT ![freelistindex(csize - asize)] =
                                            <<bp + asize>> \o @]
         /\ prev_list(t, bp + asize) = NULL
    ELSE /\ GET(t, HDRP(bp)) = PACK(csize, 1)
         /\ GET(t, bp + csize - DSIZE) = PACK(csize, 1)
         /\ ListsOf(t) = before

\* place on the block r.ret, which find_fit or extend_heap has just handed over in
\* the heap r.s and which is on no list there
PlaceOn(r, asize) ==
    r.ret # NULL =>
        \A before \in {ListsOf(r.s)} :
            /\ GET_SIZE(r.s, HDRP(r.ret)) >= asize
            /\ \A i \in Classes : \A k \in 1..Len(before[i]) : before[i][k] # r.ret
            /\ \A t \in {place(r.s, r.ret, asize)} :
                   Placed(before, t, r.ret, asize, GET_SIZE(r.s, HDRP(r.ret)))

\* place as mm_malloc calls it for a request of asize bytes in the present heap:
\* on the block find_fit found, else on the block extend_heap made
PlacesWell(asize) ==
    \A f \in {find_fit(St, asize)} :
        IF f.ret # NULL
        THEN PlaceOn(f, asize)
        ELSE mem_brk + asize <= mem_max_addr
                 => \A e \in {extend_heap(f.s, asize \div WSIZE)} :
                        e.ret # NULL /\ PlaceOn(e, asize)

\* no block but the prologue and the epilogue is smaller than 4W
NoSmallBlock == \A k \in 2..Len(RealBlocks) : BlockSize(RealBlocks[k]) >= 4 * WSIZE

\* mm_malloc(24) was the first call after mm_init and a free block of rsize bytes
\* is on the list of its class
FirstSplitLeaves(rsize) ==
    (nops = 1 /\ op.name = "mm_malloc" /\ op.size = 24 /\ DOMAIN live = {op.ret})
        => \E k \in 1..Len(RealBlocks) :
               /\ GET(St, HDRP(RealBlocks[k])) = PACK(rsize, 0)
               /\ Occurs(RealBlocks[k], freelistindex(rsize)) = 1

(* C17, as amended.  place(bp, asize) on a block of csize >= asize bytes   *)
(* that is on no list: if csize - asize >= 4W, bp's header and footer       *)
(* become (asize, allocated), a free block of csize - asize bytes with      *)
(* matching header and footer follows, and it is put at the head of list    *)
(* freelistindex(csize - asize); otherwise header and footer become         *)
(* (csize, allocated) and no list changes.  No block smaller than 4W is     *)
(* created, and after mm_init and mm_malloc(24) with W = 8 a free remainder *)
(* of 4048 bytes is on the list of its class.                               *)
C17_PlaceSplits ==
    [](Returned =>
        /\ \A n \in Sizes \ {0} : PlacesWell(adjust(n))
        /\ NoSmallBlock
        /\ FirstSplitLeaves(CHUNKSIZE - 48))

(* C17, as stated: the same, with a remainder of 4064 bytes after mm_init  *)
(* and mm_malloc(24).                                                       *)
C17_PlaceSplitsAsStated ==
    [](Returned =>
        /\ \A n \in Sizes \ {0} : PlacesWell(adjust(n))
        /\ NoSmallBlock
        /\ FirstSplitLeaves(CHUNKSIZE - 32))

\* mm_malloc(24) right after mm_init has split the first chunk
C17_Witness ==
    /\ Returned /\ nops = 1 /\ op.name = "mm_malloc" /\ op.size = 24
    /\ DOMAIN live = {op.ret}
    /\ RealBlocks = <<heap_listp, op.ret, op.ret + 48>>
    /\ head(St, freelistindex(CHUNKSIZE - 48)) = op.ret + 48

\* the block sizes mm_malloc asks find_fit for
AskedSizes == {adjust(n) : n \in (Sizes \cup ListSizes \cup {Head(ListsPrefix)}) \ {0}}

\* the sequence without its elements equal to b
Less(list, b) == SelectSeq(list, LAMBDA x : x # b)

(* C18.  In every reachable state, when find_fit(asize) returns a block,   *)
(* that block was free and on the list of its class, its size is at least   *)
(* asize, also when it is the head of a class above freelistindex(asize)    *)
(* taken without a size test, and it is on no list when find_fit returns;   *)
(* the other blocks keep their places in the lists and no header changes.   *)
C18_FindFitFits ==
    Returned =>
        \A lists \in {ListsOf(St)}, shape \in {ShapeOf(St)} :
            \A asize \in AskedSizes : \A f \in {find_fit(St, asize)} :
                f.ret # NULL =>
                    /\ \E k \in 1..Len(shape) : shape[k][1] = f.ret
                    /\ GET_ALLOC(St, HDRP(f.ret)) = 0
                    /\ GET_SIZE(St, HDRP(f.ret)) >= asize
                    /\ freelistindex(GET_SIZE(St, HDRP(f.ret))) >= freelistindex(asize)
                    /\ Len(lists[freelistindex(GET_SIZE(St, HDRP(f.ret)))])
                           = 1 + Len(Less(lists[freelistindex(GET_SIZE(St, HDRP(f.ret)))], f.ret))
                    /\ ListsOf(f.s) = [i \in Classes |-> Less(lists[i], f.ret)]
                    /\ ShapeOf(f.s) = shape

\* mm_malloc has returned, without extending the heap, the first part of a block
\* of a higher class than the one asked for, whose list holds a block too small
C18_Witness ==
    /\ Returned /\ op.name = "mm_malloc" /\ op.ret # NULL /\ mem_brk = op.brk0
    /\ head(St, freelistindex(adjust(op.size))) # NULL
    /\ BlockSize(head(St, freelistindex(adjust(op.size)))) < adjust(op.size)
    /\ BlockSize(op.ret) = adjust(op.size)
    /\ ~IsAllocated(NEXT_BLKP(St, op.ret))
    /\ head(St, freelistindex(BlockSize(NEXT_BLKP(St, op.ret)))) = NEXT_BLKP(St, op.ret)
    /\ freelistindex(BlockSize(op.ret) + BlockSize(NEXT_BLKP(St, op.ret)))
           > freelistindex(adjust(op.size))

----------------------------------------------------------------------------
(* The operations statement by statement.  A run is the sequence of heaps  *)
(* an operation passes through, the heap at the call first: one more heap   *)
(* for each header write, footer write, list insertion, list removal,       *)
(* mem_sbrk and memcpy, in the order of the C statements.                   *)

Last(run) == run[Len(run)]

\* the statement F carried out on the heap the run has reached
Do(run, F(_)) == Append(run, F(Last(run)))

\* a faulty mm_free: the block is put on its list before its header and footer are
\* written
free_steps_listed_first(run, bp, size) ==
    Do(Do(Do(run, LAMBDA s : add_to_free(s, bp, freelistindex(size))),
          LAMBDA s : put_hdr(s, bp, PACK(size, 0))),
       LAMBDA s : put_ftr(s, bp, PACK(size, 0)))

\* mm_free: header, footer, add_to_free
free_steps(run, bp, size) ==
    Do(Do(Do(run, LAMBDA s : put_hdr(s, bp, PACK(size, 0))),
          LAMBDA s : put_ftr(s, bp, PACK(size, 0))),
       LAMBDA s : add_to_free(s, bp, freelistindex(size)))

mm_free_steps(run, bp) ==
    IF bp = NULL THEN run ELSE free_steps(run, bp, GET_SIZE(Last(run), HDRP(bp)))

\* place, the split: header and footer of bp, header and footer of the remainder,
\* add_to_free
place_split_steps(run, bp, asize, rsize) ==
    Do(Do(Do(Do(Do(run, LAMBDA s : put_hdr(s, bp, PACK(asize, 1))),
                LAMBDA s : put_ftr(s, bp, PACK(asize, 1))),
             LAMBDA s : put_hdr(s, NEXT_BLKP(s, bp), PACK(rsize, 0))),
          LAMBDA s : put_ftr(s, NEXT_BLKP(s, bp), PACK(rsize, 0))),
       LAMBDA s : add_to_free(s, NEXT_BLKP(s, bp), freelistindex(rsize)))

\* place, no split: header and footer of bp
place_whole_steps(run, bp, csize) ==
    Do(Do(run, LAMBDA s : put_hdr(s, bp, PACK(csize, 1))),
       LAMBDA s : put_ftr(s, bp, PACK(csize, 1)))

place_sized_steps(run, bp, asize, csize) ==
    IF csize < asize
    THEN Do(run, LAMBDA s : [s EXCEPT !.fault = TRUE])
    ELSE IF csize - asize >= 2 * DSIZE
    THEN place_split_steps(run, bp, asize, csize - asize)
    ELSE place_whole_steps(run, bp, csize)

place_steps(run, bp, asize) ==
    place_sized_steps(run, bp, asize, GET_SIZE(Last(run), HDRP(bp)))

\* coalesce, case 2: remove_free(next), header and footer of bp
coalesce_next_writes(run, bp, val) ==
    Do(Do(run, LAMBDA s : put_hdr(s, bp, val)), LAMBDA s : put_ftr(s, bp, val))

coalesce_next_steps(run, bp, size) ==
    coalesce_next_writes(run, bp,
        PACK(size + GET_SIZE(Last(run), HDRP(NEXT_BLKP(Last(run), bp))), 0))

\* coalesce, case 3: remove_free(prev), footer of bp, header of prev
coalesce_prev_writes(run, bp, val) ==
    Do(Do(run, LAMBDA s : put_ftr(s, bp, val)), LAMBDA s : put_prev_hdr(s, bp, val))

coalesce_prev_steps(run, bp, size) ==
    coalesce_prev_writes(run, bp,
        PACK(size + GET_SIZE(Last(run), HDRP(PREV_BLKP(Last(run), bp))), 0))

\* coalesce, case 4: remove_free(next), remove_free(prev), header of prev, footer
\* of next
coalesce_both_writes(run, bp, val) ==
    Do(Do(run, LAMBDA s : put_prev_hdr(s, bp, val)), LAMBDA s : put_next_ftr(s, bp, val))

coalesce_both_steps(run, bp, size) ==
    coalesce_both_writes(run, bp,
        PACK(size + GET_SIZE(Last(run), HDRP(PREV_BLKP(Last(run), bp)))
                  + GET_SIZE(Last(run), FTRP(Last(run), NEXT_BLKP(Last(run), bp))), 0))

\* coalesce on the heap s the run has reached
coalesce_cases(run, s, bp) ==
    IF GET_ALLOC(s, FTRP(s, PREV_BLKP(s, bp))) # 0 /\ GET_ALLOC(s, HDRP(NEXT_BLKP(s, bp))) # 0
    THEN [run |-> run, ret |-> bp]
    ELSE IF GET_ALLOC(s, FTRP(s, PREV_BLKP(s, bp))) # 0
    THEN [run |-> coalesce_next_steps(
                      Do(run, LAMBDA h : remove_free(h, NEXT_BLKP(h, bp))),
                      bp, GET_SIZE(s, HDRP(bp))),
          ret |-> bp]
    ELSE IF GET_ALLOC(s, HDRP(NEXT_BLKP(s, bp))) # 0
    THEN [run |-> coalesce_prev_steps(
                      Do(run, LAMBDA h : remove_free(h, PREV_BLKP(h, bp))),
                      bp, GET_SIZE(s, HDRP(bp))),
          ret |-> PREV_BLKP(s, bp)]
    ELSE [run |-> coalesce_both_steps(
                      Do(Do(run, LAMBDA h : remove_free(h, NEXT_BLKP(h, bp))),
                         LAMBDA h : remove_free_prev_blk(h, bp)),
                      bp, GET_SIZE(s, HDRP(bp))),
          ret |-> PREV_BLKP(s, bp)]

coalesce_steps(run, bp) == coalesce_cases(run, Last(run), bp)

\* extend_heap once mem_sbrk has answered r: the new break, header, footer, the
\* epilogue header, coalesce
extend_heap_block_steps(run, r, size) ==
    IF r.ret = FAIL
    THEN [run |-> run, ret |-> NULL]
    ELSE coalesce_steps(
             Do(Do(Do(Append(run, r.s),
                      LAMBDA s : put_hdr(s, r.ret, PACK(size, 0))),
                   LAMBDA s : put_ftr(s, r.ret, PACK(size, 0))),
                LAMBDA s : extend_heap_epilogue(s, r.ret)),
             r.ret)

extend_heap_steps(run, words) ==
    extend_heap_block_steps(run,
        mem_sbrk(Last(run), IF words % 2 = 1 THEN (words + 1) * WSIZE ELSE words * WSIZE),
        IF words % 2 = 1 THEN (words + 1) * WSIZE ELSE words * WSIZE)

\* mm_malloc once extend_heap has answered e
mm_malloc_extend_steps(e, asize) ==
    IF e.ret = NULL
    THEN e
    ELSE [run |-> place_steps(e.run, e.ret, asize), ret |-> e.ret]

\* mm_malloc once find_fit has answered f: the removal find_fit has made, place
mm_malloc_fit_steps(run, f, asize) ==
    IF f.ret # NULL
    THEN [run |-> place_steps(Append(run, f.s), f.ret, asize), ret |-> f.ret]
    ELSE mm_malloc_extend_steps(extend_heap_steps(run, asize \div WSIZE), asize)

mm_malloc_steps(run, size) ==
    IF size = 0
    THEN [run |-> run, ret |-> NULL]
    ELSE mm_malloc_fit_steps(run, find_fit(Last(run), adjust(size)), adjust(size))

\* mm_realloc once mm_malloc has answered m: memcpy of n bytes, mm_free
mm_realloc_copy_steps(m, ptr, n) ==
    IF m.ret = NULL
    THEN [run |-> m.run, ret |-> NULL, copied |-> -1]
    ELSE [run |-> mm_free_steps(Do(m.run, LAMBDA s : memcpy(s, m.ret, ptr, n)), ptr),
          ret |-> m.ret, copied |-> n]

\* mm_realloc in place: remove_free(next), header and footer of ptr
mm_realloc_merge_steps(run, ptr, total) ==
    Do(Do(Do(run, LAMBDA s : remove_free(s, NEXT_BLKP(s, ptr))),
          LAMBDA s : put_hdr(s, ptr, PACK(total, 1))),
       LAMBDA s : put_ftr(s, ptr, PACK(total, 1)))

mm_realloc_sized_steps(run, s, ptr, size, oldsize, nextsize) ==
    IF oldsize + nextsize > size /\ GET_ALLOC(s, HDRP(NEXT_BLKP(s, ptr))) = 0
    THEN [run |-> mm_realloc_merge_steps(run, ptr, oldsize + nextsize),
          ret |-> ptr, copied |-> -1]
    ELSE mm_realloc_copy_steps(mm_malloc_steps(run, size), ptr,
                               IF size < oldsize THEN size ELSE oldsize)

mm_realloc_steps(run, ptr, size) ==
    IF size = 0
    THEN [run |-> mm_free_steps(run, ptr), ret |-> NULL, copied |-> -1]
    ELSE IF ptr = NULL
    THEN [copied |-> -1] @@ mm_malloc_steps(run, size)
    ELSE mm_realloc_sized_steps(run, Last(run), ptr, size,
             GET_SIZE(Last(run), HDRP(ptr)),
             GET_SIZE(Last(run), HDRP(NEXT_BLKP(Last(run), ptr))))

\* the step-wise reading ends in the heap, and with the answer, of the operation
StepsAgree ==
    Returned =>
        /\ \A n \in Sizes \cup ListSizes :
               /\ Last(mm_malloc_steps(<<St>>, n).run) = mm_malloc(St, n).s
               /\ mm_malloc_steps(<<St>>, n).ret = mm_malloc(St, n).ret
        /\ \A p \in DOMAIN live \cup {NULL} :
               /\ Last(mm_free_steps(<<St>>, p)) = mm_free(St, p)
               /\ \A n \in Sizes \cup ListSizes :
                      /\ Last(mm_realloc_steps(<<St>>, p, n).run) = mm_realloc(St, p, n).s
                      /\ mm_realloc_steps(<<St>>, p, n).ret = mm_realloc(St, p, n).ret
                      /\ mm_realloc_steps(<<St>>, p, n).copied = mm_realloc(St, p, n).copied

\* the last block before the epilogue
LastBlock == RealBlocks[Len(RealBlocks)]

(* C19.  When mm_malloc finds no fit and extends the heap while the block  *)
(* before the epilogue is free, extend_heap answers that block's payload    *)
(* pointer: the block has left its list, its header and the footer at the   *)
(* new end give the old size plus the extension, free, and a zero-size      *)
(* allocated epilogue header is the last word below the new break;          *)
(* mm_malloc returns the same pointer.  Statement by statement, the block   *)
(* is off its list before its header changes, and the merged block stands   *)
(* before place marks it allocated.                                         *)
C19_ExtendMergesTail ==
    [](Returned =>
        \A tail \in {LastBlock} :
            ~IsAllocated(tail) =>
                \A n \in {m \in (Sizes \cup ListSizes) \ {0} :
                              mem_brk + adjust(m) <= mem_max_addr} :
                    find_fit(St, adjust(n)).ret = NULL
                        => \A e \in {extend_heap(St, adjust(n) \div WSIZE)},
                              lists \in {ListsOf(St)} :
                               /\ e.ret = tail
                               /\ e.s.brk = mem_brk + adjust(n)
                               /\ ListsOf(e.s) = [i \in Classes |-> Less(lists[i], tail)]
                               /\ Len(Less(lists[freelistindex(BlockSize(tail))], tail))
                                      = Len(lists[freelistindex(BlockSize(tail))]) - 1
                               /\ GET(e.s, HDRP(tail)) = PACK(BlockSize(tail) + adjust(n), 0)
                               /\ GET(e.s, e.s.brk - 2 * WSIZE)
                                      = PACK(BlockSize(tail) + adjust(n), 0)
                               /\ tail + BlockSize(tail) + adjust(n) = e.s.brk
                               /\ GET(e.s, e.s.brk - WSIZE) = PACK(0, 1)
                               /\ mm_malloc(St, n).ret = tail
                               /\ \A run \in {mm_malloc_steps(<<St>>, n).run} :
                                      \A k \in 1..Len(run) :
                                          /\ GET(run[k], HDRP(tail)) # GET(St, HDRP(tail))
                                                 => ListsOf(run[k]) = ListsOf(e.s)
                                                        \/ GET_ALLOC(run[k], HDRP(tail)) = 1
                                          /\ GET_ALLOC(run[k], HDRP(tail)) = 1
                                                 => \E j \in 1..(k - 1) : run[j] = e.s)

\* mm_malloc has extended the heap and returned a block that begins below the old
\* break: the free block that was last
C19_Witness ==
    /\ Returned /\ op.name = "mm_malloc" /\ op.ret # NULL
    /\ mem_brk > op.brk0
    /\ op.ret < op.brk0
    /\ BlockSize(op.ret) = adjust(op.size)
    /\ NEXT_BLKP(St, op.ret) + BlockSize(NEXT_BLKP(St, op.ret)) = mem_brk
    /\ ~IsAllocated(NEXT_BLKP(St, op.ret))

----------------------------------------------------------------------------
(* The allocator run statement by statement: a call begins, each of its    *)
(* statements is one step, then it returns.  While a call is under way      *)
(* phase is "busy" and op.todo holds the heaps still to come.               *)

\* the call c begins; run is the sequence of heaps it will pass through
BeginCall(c, run) ==
    /\ phase' = "busy"
    /\ op' = [todo |-> Tail(run)] @@ c
    /\ UNCHANGED <<mem, mem_brk, mem_start_brk, mem_max_addr, junk, heap_listp,
                   free_list_segregatedp, live, nops>>

BeginMalloc(size) ==
    /\ phase = "ready"
    /\ nops < MaxOps
    /\ \E r \in {mm_malloc_steps(<<St>>, size)} :
           BeginCall(Call("mm_malloc", NULL, size, r.ret, -1), r.run)

BeginFree(p) ==
    /\ phase = "ready"
    /\ nops < MaxOps
    /\ BeginCall(Call("mm_free", p, 0, NULL, -1), mm_free_steps(<<St>>, p))

BeginRealloc(p, size) ==
    /\ phase = "ready"
    /\ nops < MaxOps
    /\ \E r \in {mm_realloc_steps(<<St>>, p, size)} :
           BeginCall(Call("mm_realloc", p, size, r.ret, r.copied), r.run)

\* the next statement of the call under way
Step ==
    /\ phase = "busy"
    /\ op.todo # <<>>
    /\ Commit(Head(op.todo))
    /\ phase' = IF Head(op.todo).fault THEN "crashed" ELSE "busy"
    /\ op' = [op EXCEPT !.todo = Tail(@)]
    /\ UNCHANGED <<live, nops>>

\* what the caller holds once the call under way has returned
LiveAfter ==
    IF op.name = "mm_malloc"
    THEN IF op.ret # NULL THEN (op.ret :> Fresh(op.size)) @@ live ELSE live
    ELSE IF op.name = "mm_free" \/ op.size = 0
    THEN Drop(live, op.ptr)
    ELSE IF op.ret = NULL THEN live
    ELSE IF op.ptr = NULL THEN (op.ret :> Fresh(op.size)) @@ live
    ELSE (op.ret :> [req |-> op.size, tag |-> live[op.ptr].tag,
                     n |-> Min(live[op.ptr].n, op.size)])
             @@ Drop(live, op.ptr)

\* the call under way returns
Return ==
    /\ phase = "busy"
    /\ op.todo = <<>>
    /\ phase' = "ready"
    /\ live' = LiveAfter
    /\ nops' = nops + 1
    /\ UNCHANGED <<mem, mem_brk, mem_start_brk, mem_max_addr, junk, heap_listp,
                   free_list_segregatedp, op>>

NextSteps ==
    \/ MmInit
    \/ \E size \in Sizes : BeginMalloc(size)
    \/ \E p \in DOMAIN live \cup {NULL} : BeginFree(p)
    \/ \E p \in DOMAIN live \cup {NULL}, size \in Sizes : BeginRealloc(p, size)
    \/ Step
    \/ Return

SpecSteps == Init /\ [][NextSteps]_vars

\* every block on a list of the heap s has a header word equal to its footer word
ListedBlocksWhole(s) ==
    \A i \in Classes : \A b \in {head(s, i)} :
        \A k \in 1..Len(Chain(s, b, MaxNodes)) :
            GET(s, HDRP(Chain(s, b, MaxNodes)[k]))
                = GET(s, FTRP(s, Chain(s, b, MaxNodes)[k]))

(* C20.  Taking each header write, footer write, list insertion and list   *)
(* removal as one step, in every state between the call and the return of   *)
(* mm_malloc, mm_free and mm_realloc (place, coalesce and extend_heap       *)
(* within them) every block on a list has a header word equal to its footer *)
(* word: a block whose header and footer differ for a moment is on no list. *)
C20_ListedHeaderIsFooter ==
    [](phase \in {"ready", "busy"} => ListedBlocksWhole(St))

\* mm_free is under way: the header of its block says free, the footer not yet,
\* the block is on no list, and other blocks are
C20_Witness ==
    /\ phase = "busy" /\ op.name = "mm_free" /\ op.ptr # NULL
    /\ GET(St, HDRP(op.ptr)) = PACK(BlockSize(op.ptr), 0)
    /\ GET(St, FTRP(St, op.ptr)) = PACK(BlockSize(op.ptr), 1)
    /\ \A i \in Classes : Occurs(op.ptr, i) = 0
    /\ \E i \in Classes : head(St, i) # NULL

----------------------------------------------------------------------------
(* When the heap grows.                                                    *)

\* the sizes of the free blocks of the heap, listed or not
FreeSizes ==
    UNION {{GET_SIZE(St, HDRP(blocks[k])) :
                k \in {j \in 1..Len(blocks) : GET_ALLOC(St, HDRP(blocks[j])) = 0}} :
           blocks \in {RealBlocks}}

\* some free block of the heap has at least asize bytes
FitsSomewhere(asize) == \E z \in FreeSizes : z >= asize

\* a call of the allocator goes from return to return
AllocatorCall ==
    phase = "ready" /\ phase' = "ready" /\ nops' = nops + 1
        /\ op'.name \in AllocatorCalls

\* what the call just made does to the break: it moves only in a call that asks
\* for bytes, by the adjusted size, after find_fit has answered NULL with no free
\* block large enough
BreakMovesOnlyForWant ==
    /\ mem_brk' # mem_brk
           => /\ op'.name \in {"mm_malloc", "mm_realloc"} /\ op'.size > 0
              /\ mem_brk' = mem_brk + adjust(op'.size)
              /\ find_fit(St, adjust(op'.size)).ret = NULL
              /\ ~FitsSomewhere(adjust(op'.size))
    /\ (op'.name = "mm_realloc" /\ op'.ptr # NULL /\ op'.size > 0
            /\ GrowsInPlace(op'.ptr, op'.size))
           => op'.ret = op'.ptr /\ mem_brk' = mem_brk

(* C21.  In every state between calls find_fit(asize) answers NULL only    *)
(* when no free block of the heap has asize bytes or more.  So mm_malloc    *)
(* moves the break only when no single free block holds the request, and    *)
(* the break stays where it is in every mm_malloc served from a list, in    *)
(* every mm_free and in every mm_realloc done in place.                     *)
C21_ExtendsOnlyForWant ==
    /\ [](Returned =>
             \A free \in {FreeSizes} : \A asize \in AskedSizes :
                 (\E z \in free : z >= asize) => find_fit(St, asize).ret # NULL)
    /\ [][AllocatorCall => BreakMovesOnlyForWant]_vars

\* mm_malloc has moved the break although a free block stood in the class of the
\* request: the last block, smaller than the request, now the front of its answer
C21_Witness ==
    /\ Returned /\ op.name = "mm_malloc" /\ op.ret # NULL
    /\ mem_brk = op.brk0 + adjust(op.size)
    /\ op.ret < op.brk0
    /\ op.brk0 - op.ret < adjust(op.size)
    /\ freelistindex(op.brk0 - op.ret) = freelistindex(adjust(op.size))

====
